---- MODULE Spec2Model ----
(***************************************************************************)
(* Model of auto_register.py: discovery of Docker containers and host      *)
(* processes, generation of monitor configurations, registration and       *)
(* cleanup of monitors in Uptime Kuma, and the watch loop.                 *)
(*                                                                         *)
(* Strings the program inspects character by character (monitor names) are *)
(* sequences of one-character strings.                                     *)
(***************************************************************************)
EXTENDS Integers, Sequences, FiniteSets, TLC

\* ------------------------------------------------------------------ bounds
\* Passes (calls of scan_and_register) explored in one behaviour.
MaxPasses == 2
\* Largest --interval value explored.
MaxInterval == 1
\* Registry calls and discovery commands that fail in one behaviour.
MaxFaults == 1
\* length of the socket lists psutil.net_connections() returns
MaxSockets == 3

\* ------------------------------------------------------------- characters
LowerSeq == <<"a","b","c","d","e","f","g","h","i","j","k","l","m",
              "n","o","p","q","r","s","t","u","v","w","x","y","z">>
UpperSeq == <<"A","B","C","D","E","F","G","H","I","J","K","L","M",
              "N","O","P","Q","R","S","T","U","V","W","X","Y","Z">>
DigitSeq == <<"0","1","2","3","4","5","6","7","8","9">>

Range(s) == { s[i] : i \in DOMAIN s }

IsDigit(c) == c \in Range(DigitSeq)

\* the regex class [a-zA-Z0-9_-]
IsIdentChar(c) == c \in Range(LowerSeq) \cup Range(UpperSeq) \cup Range(DigitSeq) \cup {"_", "-"}

\* the regex "." : any character except a newline
IsDot(c) == c # "\n"

\* str.lower() on one character
LowerChar(c) ==
    IF \E i \in DOMAIN UpperSeq : UpperSeq[i] = c
    THEN LowerSeq[CHOOSE i \in DOMAIN UpperSeq : UpperSeq[i] = c]
    ELSE c

Lower(s) == [i \in DOMAIN s |-> LowerChar(s[i])]

\* Python's "sub in s"
Contains(s, sub) ==
    \E i \in 0..(Len(s) - Len(sub)) : SubSeq(s, i + 1, i + Len(sub)) = sub

\* str(n) for a non-negative int, as the f-strings format a port
RECURSIVE ToDigits(_)
ToDigits(n) ==
    IF n < 10 THEN <<DigitSeq[n + 1]>>
    ELSE ToDigits(n \div 10) \o <<DigitSeq[(n % 10) + 1]>>

TcpSuffix == <<" ", "(", "T", "C", "P", ")">>
HostPrefix == <<"[", "H", "o", "s", "t", "]", " ">>

\* what may follow the port digits: "( \(TCP\))?$", where "$" also matches
\* just before a trailing newline
IsNameTail(t) ==
    t \in { <<>>, <<"\n">>, TcpSuffix, TcpSuffix \o <<"\n">> }

\* re.match(r"^[a-zA-Z0-9_-]+:\d+( \(TCP\))?$", name)
MatchDockerPattern(name) ==
    \E i \in 1..Len(name) : \E j \in (i + 2)..Len(name) :
        /\ name[i + 1] = ":"
        /\ \A k \in 1..i : IsIdentChar(name[k])
        /\ \A k \in (i + 2)..j : IsDigit(name[k])
        /\ IsNameTail(SubSeq(name, j + 1, Len(name)))

\* re.match(r"^\[Host\] .+:\d+( \(TCP\))?$", name)
MatchHostPattern(name) ==
    /\ Len(name) > Len(HostPrefix)
    /\ SubSeq(name, 1, Len(HostPrefix)) = HostPrefix
    /\ \E i \in (Len(HostPrefix) + 1)..Len(name) : \E j \in (i + 2)..Len(name) :
        /\ name[i + 1] = ":"
        /\ \A k \in (Len(HostPrefix) + 1)..i : IsDot(name[k])
        /\ \A k \in (i + 2)..j : IsDigit(name[k])
        /\ IsNameTail(SubSeq(name, j + 1, Len(name)))

is_auto_registered_monitor(name) ==
    MatchDockerPattern(name) \/ MatchHostPattern(name)

\* ------------------------------------------------------ monitor builders
tcp_only_ports == {5432, 3306, 27017, 6379, 5379, 11211, 9042}
http_ports == {80, 443, 3000, 3001, 4000, 5000, 5001, 8000, 8080, 8096, 8443, 9000, 8920}

ApiStr == <<"a", "p", "i">>
BackendStr == <<"b", "a", "c", "k", "e", "n", "d">>
PythonStr == <<"p", "y", "t", "h", "o", "n">>
HealthPath == <<"/", "h", "e", "a", "l", "t", "h">>

\* the URL path an HTTP monitor gets for an owner name
UrlPath(owner) ==
    IF Contains(Lower(owner), ApiStr) \/ Contains(Lower(owner), BackendStr)
    THEN HealthPath ELSE <<>>

\* the monitor dict built for one published port of a container
ContainerMonitor(cname, host_port) ==
    IF host_port \in tcp_only_ports
    THEN [type |-> "port", name |-> cname \o <<":">> \o ToDigits(host_port) \o TcpSuffix,
          port |-> host_port, path |-> <<>>]
    ELSE IF host_port \in http_ports \/ host_port >= 3000
    THEN [type |-> "http", name |-> cname \o <<":">> \o ToDigits(host_port),
          port |-> host_port, path |-> UrlPath(cname)]
    ELSE [type |-> "port", name |-> cname \o <<":">> \o ToDigits(host_port) \o TcpSuffix,
          port |-> host_port, path |-> <<>>]

RECURSIVE ContainerMonitors(_, _)
ContainerMonitors(cname, ports) ==
    IF ports = <<>> THEN <<>>
    ELSE (IF Head(ports).protocol # "tcp" THEN <<>>
          ELSE <<ContainerMonitor(cname, Head(ports).host_port)>>)
         \o ContainerMonitors(cname, Tail(ports))

generate_monitor_config(container) ==
    ContainerMonitors(container.name, container.ports)

\* generate_monitor_config_for_process taking anything called "api" for HTTP
generate_monitor_config_for_process_ApiIsHttp(process) ==
    IF Contains(Lower(process.name), ApiStr) \/ process.port \notin tcp_only_ports
    THEN [type |-> "http",
          name |-> HostPrefix \o process.name \o <<":">> \o ToDigits(process.port),
          port |-> process.port, path |-> UrlPath(process.name)]
    ELSE [type |-> "port",
          name |-> HostPrefix \o process.name \o <<":">> \o ToDigits(process.port) \o TcpSuffix,
          port |-> process.port, path |-> <<>>]

generate_monitor_config_for_process(process) ==
    IF process.port \in tcp_only_ports
    THEN [type |-> "port",
          name |-> HostPrefix \o process.name \o <<":">> \o ToDigits(process.port) \o TcpSuffix,
          port |-> process.port, path |-> <<>>]
    ELSE IF process.port \in http_ports \/ process.port >= 3000
    THEN [type |-> "http",
          name |-> HostPrefix \o process.name \o <<":">> \o ToDigits(process.port),
          port |-> process.port, path |-> UrlPath(process.name)]
    ELSE [type |-> "port",
          name |-> HostPrefix \o process.name \o <<":">> \o ToDigits(process.port) \o TcpSuffix,
          port |-> process.port, path |-> <<>>]

\* ------------------------------------------------------------- discovery
\* os.path.basename for "/"-separated paths
RECURSIVE Basename(_)
Basename(path) ==
    IF \E i \in DOMAIN path : path[i] = "/"
    THEN Basename(Tail(path))
    ELSE path

\* the name given to the process that owns a listening socket
ProcessName(conn) ==
    IF Contains(Lower(conn.pname), PythonStr) /\ Len(conn.cmdline) > 1
    THEN PythonStr \o <<":">> \o Basename(conn.cmdline[2])
    ELSE conn.pname

\* the loop of get_host_processes over psutil.net_connections(); seen is
\* seen_ports.  A socket whose process cannot be read (NoSuchProcess,
\* AccessDenied) is skipped after its port was added to seen_ports.
RECURSIVE HostLoop(_, _, _)
HostLoop(conns, exclude_ports, seen) ==
    IF conns = <<>> THEN <<>>
    ELSE LET conn == Head(conns) IN
         IF conn.status # "LISTEN" THEN HostLoop(Tail(conns), exclude_ports, seen)
         ELSE IF conn.port \in exclude_ports \/ conn.port \in seen
              THEN HostLoop(Tail(conns), exclude_ports, seen)
         ELSE IF conn.port < 1024 THEN HostLoop(Tail(conns), exclude_ports, seen)
         ELSE (IF conn.procOk
               THEN <<[name |-> ProcessName(conn), pid |-> conn.pid, port |-> conn.port]>>
               ELSE <<>>)
              \o HostLoop(Tail(conns), exclude_ports, seen \cup {conn.port})

\* get_host_processes called without the container ports and system ports
get_host_processes_NoExclude(exclude_ports, host) ==
    IF host.kind = "ok" THEN HostLoop(host.conns, {}, {})
    ELSE <<>>

\* host is what the process inventory source answers: psutil missing
\* (ImportError), net_connections refused (AccessDenied), or the sockets
get_host_processes(exclude_ports, host) ==
    IF host.kind = "ok" THEN HostLoop(host.conns, exclude_ports, {})
    ELSE <<>>

SystemPorts == {22, 135, 139, 445, 3389, 5040, 7680}

RECURSIVE AllContainerMonitors(_)
AllContainerMonitors(containers) ==
    IF containers = <<>> THEN <<>>
    ELSE generate_monitor_config(Head(containers)) \o AllContainerMonitors(Tail(containers))

\* docker_ports of scan_and_register: every host port of every container
DockerPorts(containers) ==
    UNION { { c.ports[j].host_port : j \in DOMAIN c.ports } : c \in Range(containers) }

RECURSIVE AllProcessMonitors(_)
AllProcessMonitors(processes) ==
    IF processes = <<>> THEN <<>>
    ELSE <<generate_monitor_config_for_process(Head(processes))>>
         \o AllProcessMonitors(Tail(processes))

\* ----------------------------------------------------------- environment
Str_web == <<"w", "e", "b">>
Str_dns == <<"d", "n", "s">>
Str_old == <<"o", "l", "d">>
Str_redis == <<"r", "e", "d", "i", "s">>
Str_custom == <<"c","u","s","t","o","m","-","d","a","s","h","b","o","a","r","d">>

PortInfo(ip, hp, cp, proto) ==
    [host_ip |-> ip, host_port |-> hp, container_port |-> cp, protocol |-> proto]

ContainerWeb == [name |-> Str_web, ports |-> <<PortInfo("0.0.0.0", 8080, 80, "tcp")>>]
ContainerDns == [name |-> Str_dns, ports |-> <<PortInfo("0.0.0.0", 53, 53, "udp")>>]

\* What "docker ps" answers in one pass: the containers, a non-zero exit
\* status (CalledProcessError), or no docker executable (FileNotFoundError).
DockerAnswers ==
    { [kind |-> "ok", containers |-> <<>>],
      [kind |-> "ok", containers |-> <<ContainerWeb>>],
      [kind |-> "ok", containers |-> <<ContainerDns>>] }
\* running is what runs on the host while docker ps cannot tell: the program
\* never sees it.
DockerFaults ==
    { [kind |-> "CalledProcessError", containers |-> <<>>, running |-> <<ContainerWeb>>],
      [kind |-> "FileNotFoundError", containers |-> <<>>, running |-> <<ContainerWeb>>] }

Conn(st, port, pid, pname) ==
    [status |-> st, port |-> port, pid |-> pid, pname |-> pname,
     cmdline |-> <<pname>>, procOk |-> TRUE]

\* What psutil answers in one pass.
HostAnswers ==
    { [kind |-> "ok", conns |-> <<Conn("LISTEN", 6379, 7, Str_redis),
                                  Conn("LISTEN", 8080, 8, Str_web),
                                  Conn("LISTEN", 22, 9, Str_old)>>] }
HostFaults ==
    { [kind |-> "ImportError", conns |-> <<>>] }

NotRead == [kind |-> "not read"]

\* The pairs of answers a pass can meet under the given host options: a source
\* the options leave out is not read, and a missing docker executable ends
\* the pass before psutil is asked.
Worlds(mode) ==
    { w \in ((IF mode.host_only THEN {NotRead} ELSE DockerAnswers \cup DockerFaults)
             \X ({NotRead} \cup HostAnswers \cup HostFaults)) :
        (w[2] # NotRead) <=>
            ((mode.include_host \/ mode.host_only) /\ w[1].kind # "FileNotFoundError") }

\* Records the registry may hold before the program first runs.
Record(id, name, type, port, path) ==
    [id |-> id, name |-> name, type |-> type, active |-> TRUE, port |-> port, path |-> path]

RecCustom == Record(1, Str_custom, "http", 3001, <<>>)
RecOld == Record(2, Str_old \o <<":">> \o ToDigits(9000), "http", 9000, <<>>)
\* a record that carries the name the builders give web's port 8080, with a
\* target of its own
RecWeb == Record(3, Str_web \o <<":">> \o ToDigits(8080), "http", 8080, HealthPath)

InitialRegistries ==
    { {}, {RecCustom, RecOld}, {RecCustom, RecOld, RecWeb} }

\* Uptime Kuma numbers monitors upwards
FreshId(reg) ==
    IF reg = {} THEN 1
    ELSE 1 + (CHOOSE n \in { r.id : r \in reg } : \A r \in reg : r.id <= n)

\* get_monitors(): the records ordered by id
RECURSIVE get_monitors(_)
get_monitors(reg) ==
    IF reg = {} THEN <<>>
    ELSE LET first == CHOOSE r \in reg : \A q \in reg : r.id <= q.id
         IN <<first>> \o get_monitors(reg \ {first})

\* argparse results: --host-only with --include-host behaves as --host-only
HostModes ==
    { [include_host |-> FALSE, host_only |-> FALSE],
      [include_host |-> TRUE, host_only |-> FALSE],
      [include_host |-> FALSE, host_only |-> TRUE] }

\* ----------------------------------------------------------------- state
VARIABLES
    pc,             \* position of the program
    opts,           \* parsed command-line arguments
    shutdown,       \* _shutdown_requested
    cycle,          \* cycle of watch_loop
    slept,          \* iterations of the waiting loop of this cycle that slept
    all_monitors,   \* scan_and_register: all_monitors
    active_names,   \* active_monitor_names, as handed to the cleanup
    found,          \* whether containers or processes is non-empty
    session,        \* the UptimeKumaApi connection: "none", "open"
    existing,       \* the list get_monitors() returned to the running loop
    idx,            \* position of the running loop in its list
    created,        \* register_monitors_with_api: created
    registered,     \* scan_and_register: registered
    del_count,      \* cleanup_offline_monitors_with_api: deleted
    deleted,        \* scan_and_register: deleted
    raised,         \* an exception is propagating out of the with block
    registry,       \* the monitors Uptime Kuma holds
    world,          \* what docker and psutil answer at present
    changed,        \* the answers changed since the last pass read them
    passes,         \* passes started so far
    faults,         \* failures injected so far
    cur,            \* what the running pass has last so far
    last            \* what the pass that finished last did

vars == <<pc, opts, shutdown, cycle, slept, all_monitors, active_names, found,
          session, existing, idx, created, registered, del_count, deleted,
          raised, registry, world, changed, passes, faults, cur, last>>

locals == <<all_monitors, active_names, found, existing, idx, created,
            registered, del_count, deleted, raised>>

NoSummary ==
    [valid |-> FALSE, dry_run |-> FALSE, acquired |-> FALSE, failed |-> {},
     unchanged |-> TRUE, outcome |-> "none", result |-> <<0, 0>>]

NoPass == [reg0 |-> {}, adds |-> <<>>, dels |-> <<>>,
           logins |-> 0, reads |-> 0, closes |-> 0, failed |-> {}]

Init ==
    /\ pc = "main"
    /\ opts \in [watch : BOOLEAN, dry_run : BOOLEAN, auto_cleanup : BOOLEAN,
                 mode : HostModes, interval : 0..MaxInterval]
    /\ (~opts.watch => opts.interval = 0)
    /\ shutdown = FALSE
    /\ cycle = 0
    /\ slept = 0
    /\ all_monitors = <<>>
    /\ active_names = {}
    /\ found = FALSE
    /\ session = "none"
    /\ existing = <<>>
    /\ idx = 0
    /\ created = 0
    /\ registered = 0
    /\ del_count = 0
    /\ deleted = 0
    /\ raised = FALSE
    /\ registry \in InitialRegistries
    /\ world \in Worlds(opts.mode)
    /\ changed = FALSE
    /\ passes = 0
    /\ faults = 0
    /\ cur = NoPass
    /\ last = NoSummary

\* ---------------------------------------------------------------- helpers
Names(monitors) == { monitors[i].name : i \in DOMAIN monitors }

\* a failure may still be injected
MayFail == faults < MaxFaults

\* the locals of scan_and_register and of the functions it calls, unset
ResetLocals ==
    /\ all_monitors' = <<>>
    /\ active_names' = {}
    /\ found' = FALSE
    /\ existing' = <<>>
    /\ idx' = 0
    /\ created' = 0
    /\ registered' = 0
    /\ del_count' = 0
    /\ deleted' = 0
    /\ raised' = FALSE

\* the call of scan_and_register
EnterPass ==
    /\ passes' = passes + 1
    /\ cur' = [NoPass EXCEPT !.reg0 = registry]
    /\ UNCHANGED locals

\* what a finished pass is remembered by
Summary(outcome) ==
    [valid |-> TRUE, dry_run |-> opts.dry_run,
     acquired |-> cur.logins > 0 /\ "login" \notin cur.failed,
     failed |-> cur.failed, unchanged |-> registry = cur.reg0,
     outcome |-> outcome, result |-> <<registered, deleted>>]

\* ------------------------------------------------------------------- main
\* main(): --watch enters watch_loop, which installs the signal handlers;
\* otherwise scan_and_register is called once.
Main ==
    /\ pc = "main"
    /\ passes < MaxPasses
    /\ IF opts.watch
       THEN /\ pc' = "while"
            /\ cycle' = 0
            /\ UNCHANGED <<passes, cur, locals>>
       ELSE /\ pc' = "scan"
            /\ EnterPass
            /\ UNCHANGED cycle
    /\ UNCHANGED <<opts, shutdown, slept, session, registry, world, changed, faults, last>>

\* ------------------------------------------------------- scan_and_register
\* Where scan_and_register goes once the inventory is read: nothing found,
\* no port to monitor, dry run, or registration.
Route(any, monitors) ==
    IF ~any
    THEN (IF opts.auto_cleanup THEN "connect" ELSE "return")
    ELSE IF monitors = <<>> THEN "return"
    ELSE IF opts.dry_run
    THEN (IF opts.auto_cleanup THEN "connect" ELSE "return")
    ELSE "connect"

\* The discovery part of scan_and_register, up to the choice of what to do
\* with the registry.
Discover ==
    /\ pc = "scan"
    /\ LET d == world[1]
           h == world[2]
       IN IF d.kind = "FileNotFoundError"
          THEN \* subprocess.run raises; get_docker_containers does not catch it
               /\ pc' = "raise"
               /\ UNCHANGED <<all_monitors, active_names, found>>
          ELSE LET containers == IF d.kind = "not read" THEN <<>> ELSE d.containers
                   processes ==
                       IF h.kind = "not read" THEN <<>>
                       ELSE get_host_processes(DockerPorts(containers) \cup SystemPorts, h)
                   monitors == AllContainerMonitors(containers) \o AllProcessMonitors(processes)
                   any == containers # <<>> \/ processes # <<>>
               IN /\ all_monitors' = monitors
                  /\ found' = any
                  /\ active_names' = IF any THEN Names(monitors) ELSE {}
                  /\ pc' = Route(any, monitors)
    /\ UNCHANGED <<opts, shutdown, cycle, slept, session, existing, idx, created,
                   registered, del_count, deleted, raised, registry, world, changed,
                   passes, faults, cur, last>>

\* CleanupOnly without the dry-run branch: a dry run registers
CleanupOnly_IgnoreDryRun == ~found

\* the with block only runs the cleanup
CleanupOnly == ~found \/ opts.dry_run

\* kuma_api_connection: UptimeKumaApi(KUMA_URL) and api.login(...).  When the
\* constructor fails api stays None; when login fails the finally clause
\* disconnects.  Either way the caller's except clause ends the pass.
Connect ==
    /\ pc = "connect"
    /\ \/ /\ session' = "open"
          /\ cur' = [cur EXCEPT !.logins = @ + 1]
          /\ pc' = IF CleanupOnly THEN "cl_list" ELSE "reg_list"
          /\ UNCHANGED faults
       \/ /\ MayFail
          /\ faults' = faults + 1
          /\ session' = "none"
          /\ \/ cur' = [cur EXCEPT !.failed = @ \cup {"connect"}]
             \/ cur' = [cur EXCEPT !.failed = @ \cup {"login"},
                                   !.logins = @ + 1, !.closes = @ + 1]
          /\ pc' = "return"
    /\ UNCHANGED <<opts, shutdown, cycle, slept, locals, registry, world, changed, passes, last>>

\* OnException without the finally clause: the connection is left open
OnException_NoFinally == "return"

\* An exception inside the with block first runs the finally clause of
\* kuma_api_connection.
OnException == "disconnect"

\* AlreadyExists of a loop without the "continue"
AlreadyExists_Never(m) == FALSE

\* "if m["name"] in existing_names"
AlreadyExists(m) == m.name \in Names(existing)

\* OnItemFailure with the try around the loop: the first failure ends the batch
OnItemFailure_Abort(loop) == "disconnect"

\* "except Exception" inside the loops: the loop goes on with the next item
OnItemFailure(loop) == loop

\* register_monitors_with_api: existing = api.get_monitors()
RegList ==
    /\ pc = "reg_list"
    /\ \/ /\ existing' = get_monitors(registry)
          /\ idx' = 1
          /\ created' = 0
          /\ cur' = [cur EXCEPT !.reads = @ + 1]
          /\ pc' = "reg_loop"
          /\ UNCHANGED <<faults, raised>>
       \/ /\ MayFail
          /\ faults' = faults + 1
          /\ raised' = TRUE
          /\ cur' = [cur EXCEPT !.failed = @ \cup {"list"}]
          /\ pc' = OnException
          /\ UNCHANGED <<existing, idx, created>>
    /\ UNCHANGED <<opts, shutdown, cycle, slept, all_monitors, active_names, found,
                   session, registered, del_count, deleted, registry, world, changed, passes, last>>

\* RegStep of a loop that brings a registered monitor up to date
RegStep_Upsert ==
    /\ pc = "reg_loop"
    /\ idx <= Len(all_monitors)
    /\ LET m == all_monitors[idx] IN
       IF AlreadyExists(m)
       THEN /\ registry' = { IF r.name = m.name
                              THEN [r EXCEPT !.type = m.type, !.port = m.port, !.path = m.path]
                              ELSE r : r \in registry }
            /\ UNCHANGED <<pc, created, cur, faults>>
       ELSE /\ registry' = registry \cup
                     {[id |-> FreshId(registry), name |-> m.name, type |-> m.type,
                       active |-> TRUE, port |-> m.port, path |-> m.path]}
            /\ created' = created + 1
            /\ cur' = [cur EXCEPT !.adds = Append(@, [name |-> m.name, ok |-> TRUE])]
            /\ UNCHANGED <<pc, faults>>
    /\ idx' = idx + 1
    /\ UNCHANGED <<opts, shutdown, cycle, slept, all_monitors, active_names, found,
                   session, existing, registered, del_count, deleted, raised,
                   world, changed, passes, last>>

\* RegStep with "created += 1" after the try statement
RegStep_CountFailed ==
    /\ pc = "reg_loop"
    /\ idx <= Len(all_monitors)
    /\ LET m == all_monitors[idx] IN
       IF AlreadyExists(m)
       THEN UNCHANGED <<pc, created, registry, cur, faults>>
       ELSE \/ /\ registry' = registry \cup
                     {[id |-> FreshId(registry), name |-> m.name, type |-> m.type,
                       active |-> TRUE, port |-> m.port, path |-> m.path]}
               /\ created' = created + 1
               /\ cur' = [cur EXCEPT !.adds = Append(@, [name |-> m.name, ok |-> TRUE])]
               /\ UNCHANGED <<pc, faults>>
            \/ /\ MayFail
               /\ faults' = faults + 1
               /\ cur' = [cur EXCEPT !.adds = Append(@, [name |-> m.name, ok |-> FALSE]),
                                     !.failed = @ \cup {"add"}]
               /\ pc' = OnItemFailure("reg_loop")
               /\ created' = created + 1
               /\ UNCHANGED registry
    /\ idx' = idx + 1
    /\ UNCHANGED <<opts, shutdown, cycle, slept, all_monitors, active_names, found,
                   session, existing, registered, del_count, deleted, raised,
                   world, changed, passes, last>>

\* one iteration of "for m in monitors"
RegStep ==
    /\ pc = "reg_loop"
    /\ idx <= Len(all_monitors)
    /\ LET m == all_monitors[idx] IN
       IF AlreadyExists(m)
       THEN UNCHANGED <<pc, created, registry, cur, faults>>
       ELSE \/ /\ registry' = registry \cup
                     {[id |-> FreshId(registry), name |-> m.name, type |-> m.type,
                       active |-> TRUE, port |-> m.port, path |-> m.path]}
               /\ created' = created + 1
               /\ cur' = [cur EXCEPT !.adds = Append(@, [name |-> m.name, ok |-> TRUE])]
               /\ UNCHANGED <<pc, faults>>
            \/ /\ MayFail
               /\ faults' = faults + 1
               /\ cur' = [cur EXCEPT !.adds = Append(@, [name |-> m.name, ok |-> FALSE]),
                                     !.failed = @ \cup {"add"}]
               /\ pc' = OnItemFailure("reg_loop")
               /\ UNCHANGED <<created, registry>>
    /\ idx' = idx + 1
    /\ UNCHANGED <<opts, shutdown, cycle, slept, all_monitors, active_names, found,
                   session, existing, registered, del_count, deleted, raised,
                   world, changed, passes, last>>

\* "return created", back in scan_and_register
RegDone ==
    /\ pc = "reg_loop"
    /\ idx > Len(all_monitors)
    /\ registered' = created
    /\ pc' = IF opts.auto_cleanup THEN "cl_list" ELSE "disconnect"
    /\ UNCHANGED <<opts, shutdown, cycle, slept, all_monitors, active_names, found,
                   session, existing, idx, created, del_count, deleted, raised,
                   registry, world, changed, passes, faults, cur, last>>

\* cleanup_offline_monitors_with_api: existing = api.get_monitors()
CleanList ==
    /\ pc = "cl_list"
    /\ \/ /\ existing' = get_monitors(registry)
          /\ idx' = 1
          /\ del_count' = 0
          /\ cur' = [cur EXCEPT !.reads = @ + 1]
          /\ pc' = "cl_loop"
          /\ UNCHANGED <<faults, raised>>
       \/ /\ MayFail
          /\ faults' = faults + 1
          /\ raised' = TRUE
          /\ cur' = [cur EXCEPT !.failed = @ \cup {"list"}]
          /\ pc' = OnException
          /\ UNCHANGED <<existing, idx, del_count>>
    /\ UNCHANGED <<opts, shutdown, cycle, slept, all_monitors, active_names, found,
                   session, created, registered, deleted, registry, world, changed, passes, last>>

\* IsStale without the naming test: every record not running is deleted
IsStale_AnyName(m) == m.name \notin active_names

\* IsStale without the test against the running monitors
IsStale_IgnoreActive(m) == is_auto_registered_monitor(m.name)

\* the test that lets the loop go on to delete m
IsStale(m) ==
    /\ is_auto_registered_monitor(m.name)
    /\ m.name \notin active_names

\* one iteration of "for m in existing"
CleanStep ==
    /\ pc = "cl_loop"
    /\ idx <= Len(existing)
    /\ LET m == existing[idx] IN
       IF ~IsStale(m)
       THEN UNCHANGED <<pc, del_count, registry, cur, faults>>
       ELSE IF opts.dry_run
       THEN /\ del_count' = del_count + 1
            /\ UNCHANGED <<pc, registry, cur, faults>>
       ELSE \/ /\ registry' = { r \in registry : r.id # m.id }
               /\ del_count' = del_count + 1
               /\ cur' = [cur EXCEPT !.dels = Append(@, [id |-> m.id, name |-> m.name, ok |-> TRUE])]
               /\ UNCHANGED <<pc, faults>>
            \/ /\ MayFail
               /\ faults' = faults + 1
               /\ cur' = [cur EXCEPT !.dels = Append(@, [id |-> m.id, name |-> m.name, ok |-> FALSE]),
                                     !.failed = @ \cup {"delete"}]
               /\ pc' = OnItemFailure("cl_loop")
               /\ UNCHANGED <<del_count, registry>>
    /\ idx' = idx + 1
    /\ UNCHANGED <<opts, shutdown, cycle, slept, all_monitors, active_names, found,
                   session, existing, created, registered, deleted, raised,
                   world, changed, passes, last>>

\* "return deleted", back in scan_and_register
CleanDone ==
    /\ pc = "cl_loop"
    /\ idx > Len(existing)
    /\ deleted' = del_count
    /\ pc' = "disconnect"
    /\ UNCHANGED <<opts, shutdown, cycle, slept, all_monitors, active_names, found,
                   session, existing, idx, created, registered, del_count, raised,
                   registry, world, changed, passes, faults, cur, last>>

\* Disconnect of a kuma_api_connection that never calls api.disconnect()
Disconnect_KeepOpen ==
    /\ pc = "disconnect"
    /\ raised' = FALSE
    /\ pc' = "return"
    /\ UNCHANGED <<opts, shutdown, cycle, slept, all_monitors, active_names, found,
                   session, existing, idx, created, registered, del_count, deleted,
                   registry, world, changed, passes, faults, cur, last>>

\* leaving the with block: the finally clause of kuma_api_connection, then
\* the except clause of scan_and_register if an exception is on its way
Disconnect ==
    /\ pc = "disconnect"
    /\ session' = "none"
    /\ raised' = FALSE
    /\ cur' = [cur EXCEPT !.closes = @ + 1]
    /\ pc' = "return"
    /\ UNCHANGED <<opts, shutdown, cycle, slept, all_monitors, active_names, found,
                   existing, idx, created, registered, del_count, deleted,
                   registry, world, changed, passes, faults, last>>

\* AfterPass of a watch_loop that gives up when the registry cannot be reached
AfterPass_StopOnConnectFailure(outcome) ==
    IF opts.watch /\ cur.failed \cap {"connect", "login"} = {}
    THEN "sleep_check" ELSE "stopped"

\* AfterPass of a watch_loop without "except Exception"
AfterPass_StopOnRaise(outcome) ==
    IF opts.watch /\ outcome = "returned" THEN "sleep_check" ELSE "stopped"

\* AfterPass of a main that always loops
AfterPass_AlwaysLoop(outcome) == "sleep_check"

\* where the caller of scan_and_register goes on: watch_loop waits, main ends
AfterPass(outcome) == IF opts.watch THEN "sleep_check" ELSE "stopped"

\* scan_and_register returns (registered, deleted)
PassReturn ==
    /\ pc = "return"
    /\ last' = Summary("returned")
    /\ pc' = AfterPass("returned")
    /\ slept' = 0
    /\ ResetLocals
    /\ cur' = NoPass
    /\ changed' = FALSE
    /\ UNCHANGED <<opts, shutdown, cycle, session, registry, world, passes, faults>>

\* an exception leaves scan_and_register: "except Exception" of watch_loop
\* catches it; main has no handler and the program ends
PassRaise ==
    /\ pc = "raise"
    /\ last' = Summary("raised")
    /\ pc' = AfterPass("raised")
    /\ slept' = 0
    /\ ResetLocals
    /\ cur' = NoPass
    /\ changed' = FALSE
    /\ UNCHANGED <<opts, shutdown, cycle, session, registry, world, passes, faults>>

\* -------------------------------------------------------------- watch_loop
\* KeepRunning of a "while True:" loop
KeepRunning_Forever == TRUE

\* the loop condition "not _shutdown_requested"
KeepRunning == ~shutdown

\* "while not _shutdown_requested:", "cycle += 1" and the call of
\* scan_and_register
WhileCheck ==
    /\ pc = "while"
    /\ IF ~KeepRunning
       THEN /\ pc' = "stopped"
            /\ UNCHANGED <<cycle, passes, cur, locals>>
       ELSE /\ passes < MaxPasses
            /\ cycle' = cycle + 1
            /\ pc' = "scan"
            /\ EnterPass
    /\ UNCHANGED <<opts, shutdown, slept, session, registry, world, changed, faults, last>>

\* BreakSleep of a sleep loop that does not look at the flag
BreakSleep_Never == FALSE

\* "if _shutdown_requested: break"
BreakSleep == shutdown

\* one test of "for _ in range(interval): if _shutdown_requested: break"
SleepCheck ==
    /\ pc = "sleep_check"
    /\ pc' = IF slept >= opts.interval \/ BreakSleep THEN "while" ELSE "sleeping"
    /\ UNCHANGED <<opts, shutdown, cycle, slept, locals, session, registry, world, changed,
                   passes, faults, cur, last>>

\* time.sleep(1) returns
SleepTick ==
    /\ pc = "sleeping"
    /\ slept' = slept + 1
    /\ pc' = "sleep_check"
    /\ UNCHANGED <<opts, shutdown, cycle, locals, session, registry, world, changed,
                   passes, faults, cur, last>>

\* SIGINT or SIGTERM arrives while the handlers of watch_loop are installed
Signal ==
    /\ opts.watch
    /\ pc \notin {"main", "stopped"}
    /\ ~shutdown
    /\ shutdown' = TRUE
    /\ UNCHANGED <<pc, opts, cycle, slept, locals, session, registry, world, changed,
                   passes, faults, cur, last>>

\* the operator starts the program again, with or without --dry-run
Rerun ==
    /\ pc = "stopped"
    /\ ~opts.watch
    /\ passes < MaxPasses
    /\ pc' = "main"
    /\ \E dr \in BOOLEAN : opts' = [opts EXCEPT !.dry_run = dr]
    /\ shutdown' = FALSE
    /\ cycle' = 0
    /\ UNCHANGED <<slept, locals, session, registry, world, changed, passes, faults, cur, last>>

\* services start or stop, or a source starts or stops failing, before the
\* next pass reads the sources
WorldChange ==
    /\ pc \in {"main", "while"}
    /\ last.valid
    /\ ~changed
    /\ passes < MaxPasses
    /\ world' \in Worlds(opts.mode) \ {world}
    /\ changed' = TRUE
    /\ UNCHANGED <<pc, opts, shutdown, cycle, slept, locals, session, registry,
                   passes, faults, cur, last>>

\* the steps of one call of scan_and_register
Pass ==
    \/ Discover \/ Connect \/ RegList \/ RegStep \/ RegDone
    \/ CleanList \/ CleanStep \/ CleanDone \/ Disconnect \/ PassReturn \/ PassRaise

\* the steps of watch_loop around the passes
Watch == WhileCheck \/ SleepCheck \/ SleepTick

Program == Main \/ Pass \/ Watch

Next == Program \/ Signal \/ Rerun \/ WorldChange

\* every way the program can be started
Spec == Init /\ [][Next]_vars

\* the program started without --watch, any number of times in a row
OnceInit == Init /\ ~opts.watch
OnceNext == Main \/ Pass \/ Rerun \/ WorldChange
OnceSpec == OnceInit /\ [][OnceNext]_vars

\* the program started with --watch
WatchInit ==
    /\ Init
    /\ opts.watch
    /\ opts.interval \in {0, MaxInterval}
    /\ registry = {RecCustom, RecOld}
WatchNext == Main \/ Pass \/ Watch \/ Signal \/ WorldChange
WatchSpec == WatchInit /\ [][WatchNext]_vars

\* Watch mode over the containers only.  The interpreter keeps running the
\* program, whose every step terminates; whether a signal is sent and whether
\* the inventory changes is up to the environment.
FairInit == WatchInit /\ ~opts.mode.host_only /\ ~opts.mode.include_host
FairWatchSpec == FairInit /\ [][WatchNext]_vars /\ WF_vars(Main \/ Pass \/ Watch)

\* ---------------------------------------------------- inventories at large
\* One pass over an inventory of one container or one listening process, for
\* a range of owner names and ports: what the builders make of each.
Str_api == <<"a", "p", "i">>
Str_dotted == <<"a", ".", "b">>
Str_script == <<"/", "s", "r", "v", "/", "a", "p", "p", ".", "p", "y">>

\* lists parse_ports can return: no two entries are equal
BuildPortLists ==
    { <<PortInfo("0.0.0.0", hp, 80, "tcp")>> : hp \in {5432, 8080, 3500, 2000} }
    \cup { <<PortInfo("0.0.0.0", 53, 53, "udp")>>,
           <<PortInfo("0.0.0.0", 5432, 5432, "tcp"), PortInfo("0.0.0.0", 8080, 80, "tcp")>>,
           <<PortInfo("127.0.0.1", 8080, 80, "tcp"), PortInfo("192.168.0.2", 8080, 81, "tcp")>> }

BuildContainers ==
    { [name |-> n, ports |-> pl] : n \in {Str_web, Str_api, Str_dotted}, pl \in BuildPortLists }

BuildConns ==
    { Conn("LISTEN", port, 7, pname) : port \in {6379, 8080, 3500, 2000},
                                       pname \in {Str_redis, Str_api} }
    \cup { [Conn("LISTEN", port, 7, PythonStr) EXCEPT !.cmdline = <<PythonStr, Str_script>>] :
             port \in {6379, 8080, 3500, 2000} }

BuildDockerWorlds ==
    { <<[kind |-> "ok", containers |-> <<c>>], NotRead>> : c \in BuildContainers }
    \cup { <<d, NotRead>> : d \in DockerFaults }

BuildHostWorlds ==
    { <<NotRead, [kind |-> "ok", conns |-> <<c>>]>> : c \in BuildConns }

BuildInit ==
    /\ pc = "main"
    /\ \/ /\ world \in BuildDockerWorlds
          /\ opts \in [watch : {FALSE}, dry_run : BOOLEAN, auto_cleanup : BOOLEAN,
                       mode : {[include_host |-> FALSE, host_only |-> FALSE]},
                       interval : {0}]
       \/ /\ world \in BuildHostWorlds
          /\ opts \in [watch : {FALSE}, dry_run : BOOLEAN, auto_cleanup : BOOLEAN,
                       mode : {[include_host |-> FALSE, host_only |-> TRUE]},
                       interval : {0}]
    /\ shutdown = FALSE
    /\ cycle = 0
    /\ slept = 0
    /\ all_monitors = <<>>
    /\ active_names = {}
    /\ found = FALSE
    /\ session = "none"
    /\ existing = <<>>
    /\ idx = 0
    /\ created = 0
    /\ registered = 0
    /\ del_count = 0
    /\ deleted = 0
    /\ raised = FALSE
    /\ registry = {}
    /\ changed = FALSE
    /\ passes = 0
    /\ faults = 0
    /\ cur = NoPass
    /\ last = NoSummary

BuildNext == Main \/ Pass
BuildSpec == BuildInit /\ [][BuildNext]_vars

\* ------------------------------------------------------- sockets at large
\* The discovery of a pass with --include-host over socket lists that hold
\* sockets not listening, ports excluded, published by a container or below
\* 1024, ports repeated under another owner, and a process that cannot be read.
SocketKinds ==
    { Conn("LISTEN", 6379, 7, Str_redis),
      Conn("LISTEN", 6379, 8, Str_api),
      Conn("ESTABLISHED", 6379, 8, Str_api),
      Conn("LISTEN", 8080, 9, Str_web),
      Conn("LISTEN", 22, 10, Str_old),
      Conn("LISTEN", 900, 8, Str_api),
      [Conn("LISTEN", 6379, 7, Str_redis) EXCEPT !.procOk = FALSE] }

SocketLists == UNION { [1..n -> SocketKinds] : n \in 0..MaxSockets }

SocketWorlds ==
    { <<[kind |-> "ok", containers |-> cs], [kind |-> "ok", conns |-> sl]>> :
        cs \in { <<>>, <<ContainerWeb>> }, sl \in SocketLists }

SocketInit ==
    /\ pc = "main"
    /\ world \in SocketWorlds
    /\ opts = [watch |-> FALSE, dry_run |-> TRUE, auto_cleanup |-> FALSE,
               mode |-> [include_host |-> TRUE, host_only |-> FALSE], interval |-> 0]
    /\ shutdown = FALSE
    /\ cycle = 0
    /\ slept = 0
    /\ all_monitors = <<>>
    /\ active_names = {}
    /\ found = FALSE
    /\ session = "none"
    /\ existing = <<>>
    /\ idx = 0
    /\ created = 0
    /\ registered = 0
    /\ del_count = 0
    /\ deleted = 0
    /\ raised = FALSE
    /\ registry = {}
    /\ changed = FALSE
    /\ passes = 0
    /\ faults = 0
    /\ cur = NoPass
    /\ last = NoSummary

SocketNext == Main \/ Discover \/ PassReturn
SocketSpec == SocketInit /\ [][SocketNext]_vars

\* ------------------------------------------------------ intervals at large
\* Watch mode over the containers, with auto-cleanup, for every --interval up
\* to one more than MaxInterval.
SleepInit ==
    /\ pc = "main"
    /\ opts \in [watch : {TRUE}, dry_run : {FALSE}, auto_cleanup : {TRUE},
                 mode : {[include_host |-> FALSE, host_only |-> FALSE]},
                 interval : 0..(MaxInterval + 1)]
    /\ world \in Worlds(opts.mode)
    /\ shutdown = FALSE
    /\ cycle = 0
    /\ slept = 0
    /\ all_monitors = <<>>
    /\ active_names = {}
    /\ found = FALSE
    /\ session = "none"
    /\ existing = <<>>
    /\ idx = 0
    /\ created = 0
    /\ registered = 0
    /\ del_count = 0
    /\ deleted = 0
    /\ raised = FALSE
    /\ registry = {RecCustom, RecOld}
    /\ changed = FALSE
    /\ passes = 0
    /\ faults = 0
    /\ cur = NoPass
    /\ last = NoSummary

SleepSpec == SleepInit /\ [][WatchNext]_vars

\* ================================================================= claims
InPass ==
    pc \in {"scan", "connect", "reg_list", "reg_loop", "cl_list", "cl_loop",
            "disconnect", "return", "raise"}

ConnectFailed == cur.failed \cap {"connect", "login"} # {}

NamesOf(calls) == [i \in DOMAIN calls |-> calls[i].name]
OkCount(calls) == Cardinality({ i \in DOMAIN calls : calls[i].ok })

\* C1: a delete call is issued only for a record whose name matches the
\* auto-managed grammar; a record with any other name that was in the registry
\* when the pass began, "custom-dashboard" among them, is still there.
C1_DeleteOnlyAutoManaged ==
    /\ \A i \in DOMAIN cur.dels : is_auto_registered_monitor(cur.dels[i].name)
    /\ \A r \in cur.reg0 : ~is_auto_registered_monitor(r.name) => r \in registry
    /\ RecCustom \in cur.reg0 => RecCustom \in registry

\* a cleanup that deleted something has passed over "custom-dashboard", which
\* is not among the running monitors
C1_Witness ==
    /\ pc = "return"
    /\ opts.auto_cleanup
    /\ \E i \in DOMAIN cur.dels : cur.dels[i].ok
    /\ RecCustom \in cur.reg0
    /\ RecCustom.name \notin active_names

\* the pass before this one: not a dry run, session acquired, inventory as now
AfterRealPass ==
    /\ InPass
    /\ last.valid
    /\ ~last.dry_run
    /\ last.acquired
    /\ ~changed

SecondPassIdle ==
    /\ cur.adds = <<>>
    /\ cur.dels = <<>>
    /\ pc = "return" => registered = 0 /\ deleted = 0

\* C2 as stated: after a non-dry-run pass whose session was acquired and whose
\* create and delete calls all succeeded, the next pass over the same inventory
\* issues no create and no delete and returns (0, 0).
C2_Idempotent_AsStated ==
    (AfterRealPass /\ last.failed \cap {"add", "delete"} = {}) => SecondPassIdle

\* C2, amended: the same, when also every get_monitors call of the first pass
\* succeeded.
C2_Idempotent ==
    (AfterRealPass /\ last.failed = {}) => SecondPassIdle

\* the second pass returns after a first pass that created and deleted
C2_Witness ==
    /\ pc = "return"
    /\ AfterRealPass
    /\ last.failed = {}
    /\ last.result[1] > 0
    /\ last.result[2] > 0
    /\ cur.reads > 0

\* C3: in a dry run no add_monitor and no delete_monitor call is made and the
\* registry holds what it held when the pass began.
C3_DryRunNoWrites ==
    (InPass /\ opts.dry_run) =>
        /\ cur.adds = <<>>
        /\ cur.dels = <<>>
        /\ registry = cur.reg0

\* a dry run with monitors to register has counted a stale monitor
C3_Witness ==
    /\ pc = "return"
    /\ opts.dry_run
    /\ opts.auto_cleanup
    /\ all_monitors # <<>>
    /\ deleted > 0

\* C4: the counts a dry run returns equal the counts the run without --dry-run
\* returns for the same inventory, registry and other options when no call fails.
\* (The dry run came first and left the registry as it found it.)
C4_DryRunCountsEqual ==
    ( /\ pc = "return"
      /\ ~opts.dry_run
      /\ cur.failed = {}
      /\ ~changed
      /\ last.valid
      /\ last.dry_run
      /\ last.unchanged
      /\ last.failed = {}
      /\ last.outcome = "returned" )
    => last.result = <<registered, deleted>>

\* the records of the registry at the start of the pass that the cleanup of
\* this pass is to delete
StaleAtStart ==
    { r \in cur.reg0 : is_auto_registered_monitor(r.name) /\ r.name \notin active_names }

NotRegisteredAtStart(m) == m.name \notin { r.name : r \in cur.reg0 }

\* C5: in a pass that is no dry run, whose session was acquired and whose
\* get_monitors calls succeeded, every spec not yet registered got its create
\* call and every stale record its delete call, whether or not other calls
\* failed, and only the calls that succeeded are counted.
C5_FailureIsolated ==
    ( /\ pc = "return"
      /\ ~opts.dry_run
      /\ cur.logins > 0
      /\ cur.failed \cap {"connect", "login", "list"} = {} )
    =>
      /\ ~CleanupOnly =>
            /\ NamesOf(cur.adds) = NamesOf(SelectSeq(all_monitors, NotRegisteredAtStart))
            /\ registered = OkCount(cur.adds)
      /\ opts.auto_cleanup =>
            /\ { cur.dels[i].id : i \in DOMAIN cur.dels } = { r.id : r \in StaleAtStart }
            /\ Len(cur.dels) = Cardinality(StaleAtStart)
            /\ deleted = OkCount(cur.dels)
      /\ ~opts.auto_cleanup => cur.dels = <<>>

\* the first of two create calls failed and the second succeeded
C5_Witness ==
    /\ pc = "return"
    /\ Len(cur.adds) = 2
    /\ ~cur.adds[1].ok
    /\ cur.adds[2].ok
    /\ registered = 1

\* C6: a pass that cannot establish the session makes no create and no delete
\* call and leaves the registry as it was, and watch_loop goes on to wait for
\* the next cycle; it stops only on a shutdown request.
C6_NoSessionNoWrites ==
    /\ [](ConnectFailed =>
            /\ cur.adds = <<>>
            /\ cur.dels = <<>>
            /\ registry = cur.reg0
            /\ session = "none")
    /\ [][(pc = "return" /\ ConnectFailed /\ pc' # pc) => pc' = "sleep_check"]_vars
    /\ [][(pc # "stopped" /\ pc' = "stopped") => shutdown]_vars

\* the second cycle starts after a pass that could not log in
C6_Witness ==
    /\ pc = "scan"
    /\ cycle = 2
    /\ ~shutdown
    /\ last.failed \cap {"connect", "login"} # {}

\* C7: watch_loop starts a pass only from its loop head, one per cycle, with no
\* session open; it starts waiting only when the pass has returned or raised;
\* and no session is open while it waits.
C7_OnePassAtATime ==
    /\ [](pc \in {"while", "sleep_check", "sleeping", "stopped"} => session = "none")
    /\ [](passes = cycle)
    /\ [][(pc # "scan" /\ pc' = "scan") =>
            /\ pc = "while"
            /\ session = "none"
            /\ cycle' = cycle + 1]_vars
    /\ [][(pc \notin {"sleep_check", "sleeping"} /\ pc' = "sleep_check") =>
            pc \in {"return", "raise"}]_vars

\* the second cycle starts after a pass that used a session
C7_Witness ==
    /\ pc = "scan"
    /\ cycle = 2
    /\ last.acquired

\* C8: once shutdown is requested no pass is started, a running pass goes on
\* to its end, the waiting loop and the loop head leave at their next test,
\* and the loop reaches "stopped".
C8_ShutdownStops ==
    /\ [][(shutdown /\ pc # "scan") => pc' # "scan"]_vars
    /\ [][(shutdown /\ InPass /\ pc' # pc) =>
            IF pc \in {"return", "raise"} THEN pc' = "sleep_check" ELSE InPass']_vars
    /\ [][(shutdown /\ pc = "sleep_check" /\ pc' # pc) => pc' = "while"]_vars
    /\ [][(shutdown /\ pc = "while" /\ pc' # pc) => pc' = "stopped"]_vars
    /\ (shutdown ~> pc = "stopped")

\* the loop stopped on a request made while a pass was running or waiting
C8_Witness ==
    /\ pc = "stopped"
    /\ shutdown
    /\ last.valid

\* C9: an exception that leaves scan_and_register is followed by the waiting
\* loop and, without a shutdown request, by the next cycle; the loop is left
\* only from its head and only when shutdown was requested.
C9_CycleFailureContinues ==
    /\ [][(pc = "raise" /\ pc' # pc) => pc' = "sleep_check"]_vars
    /\ [][(pc = "while" /\ ~shutdown /\ pc' # pc) => pc' = "scan"]_vars
    /\ [][(pc # "stopped" /\ pc' = "stopped") => (pc = "while" /\ shutdown)]_vars

\* the second cycle starts after a pass that raised
C9_Witness ==
    /\ pc = "scan"
    /\ cycle = 2
    /\ last.outcome = "raised"

\* C10: without --watch a pass starts only at the start of the program, the
\* program stops when the pass returns or raises, and it never waits.
C10_SingleShot ==
    /\ [](pc \notin {"while", "sleep_check", "sleeping"})
    /\ [][(pc # "scan" /\ pc' = "scan") => pc = "main"]_vars
    /\ [][(pc \in {"return", "raise"} /\ pc' # pc) => pc' = "stopped"]_vars
    /\ [][(pc = "stopped" /\ pc' # pc) => (pc' = "main" /\ passes' = passes)]_vars

\* the program has stopped after a pass that raised
C10_Witness ==
    /\ pc = "stopped"
    /\ last.valid
    /\ last.outcome = "raised"

DockerFailed == world[1].kind \in {"CalledProcessError", "FileNotFoundError"}
HostFailed == world[2].kind = "ImportError"

\* what the source that answered contributes to the desired monitors
OtherSourceMonitors ==
    LET containers == IF world[1].kind = "ok" THEN world[1].containers ELSE <<>>
        processes ==
            IF world[2].kind = "ok"
            THEN get_host_processes(DockerPorts(containers) \cup SystemPorts, world[2])
            ELSE <<>>
    IN AllContainerMonitors(containers) \o AllProcessMonitors(processes)

\* C11: when an inventory source fails (docker ps exits with an error, the
\* docker executable is missing, or psutil cannot be imported) the pass is not
\* aborted: it goes on with the monitors of the other source and an empty
\* list for the failed one.
C11_SourceFailureDegrades ==
    (InPass /\ pc # "scan" /\ (DockerFailed \/ HostFailed)) =>
        /\ pc # "raise"
        /\ all_monitors = OtherSourceMonitors

\* the ports the inventory offers to the builders
InputPorts ==
    (IF world[1].kind = "ok"
     THEN UNION { { c.ports[j].host_port : j \in { k \in DOMAIN c.ports : c.ports[k].protocol = "tcp" } } :
                  c \in Range(world[1].containers) }
     ELSE {})
    \cup (IF world[2].kind = "ok"
          THEN { world[2].conns[j].port : j \in DOMAIN world[2].conns }
          ELSE {})

\* the kind the specification gives a port
KindOf(port) ==
    IF port \in {5432, 3306, 27017, 6379, 5379, 11211, 9042} THEN "port"
    ELSE IF port \in {80, 443, 3000, 3001, 4000, 5000, 5001, 8000, 8080, 8096, 8443, 9000, 8920}
            \/ port >= 3000
    THEN "http"
    ELSE "port"

\* C12: the kind of every monitor built, from a container or from a host
\* process, is the kind its port alone determines: TCP for the TCP-only
\* ports, HTTP for the HTTP ports and the ports from 3000 up, TCP otherwise,
\* whatever the owner is called.
C12_KindByPortOnly ==
    (InPass /\ pc \notin {"scan", "raise"}) =>
        { <<m.port, m.type>> : m \in Range(all_monitors) }
            = { <<p, KindOf(p)>> : p \in InputPorts }

\* a TCP-only port of an owner called "api" has become a TCP monitor
C12_Witness ==
    /\ pc = "connect"
    /\ \E m \in Range(all_monitors) :
        /\ m.port \in tcp_only_ports
        /\ m.type = "port"
        /\ Contains(m.name, ApiStr)
    /\ world[2].kind = "ok"

\* C13: no two monitors of the desired set of a pass have the same name, and
\* no two add_monitor calls of a pass carry the same name.
C13_NamesUnique ==
    InPass =>
        /\ \A i, j \in DOMAIN all_monitors :
              all_monitors[i].name = all_monitors[j].name => i = j
        /\ \A i, j \in DOMAIN cur.adds :
              cur.adds[i].name = cur.adds[j].name => i = j

\* C19: every name the builders give a monitor is accepted by
\* is_auto_registered_monitor.
C19_GeneratedNamesRecognised ==
    \A i \in DOMAIN all_monitors : is_auto_registered_monitor(all_monitors[i].name)

\* the registry records of the start of the pass that are auto-managed and
\* carry the name of no monitor of the desired set
StaleOfDesired ==
    { r \in cur.reg0 :
        is_auto_registered_monitor(r.name) /\ r.name \notin Names(all_monitors) }

DeletionsAre(stale) ==
    IF opts.dry_run
    THEN /\ cur.dels = <<>>
         /\ deleted = Cardinality(stale)
    ELSE /\ { cur.dels[i].id : i \in DOMAIN cur.dels } = { r.id : r \in stale }
         /\ Len(cur.dels) = Cardinality(stale)

\* C14: at the end of a pass in which nothing failed, with --auto-cleanup the
\* records deleted (counted, in a dry run) are exactly the auto-managed records
\* named by no monitor of the desired set, whatever the inventory; without
\* --auto-cleanup nothing is deleted or counted.
C14_StaleSetDeleted ==
    (pc = "return" /\ cur.failed = {}) =>
        IF opts.auto_cleanup
        THEN DeletionsAre(StaleOfDesired)
        ELSE cur.dels = <<>> /\ deleted = 0

\* C14 for the inventories that offer a port to monitor or nothing at all
C14_StaleSetDeleted_WithPorts ==
    (pc = "return" /\ cur.failed = {} /\ (all_monitors # <<>> \/ ~found)) =>
        IF opts.auto_cleanup
        THEN DeletionsAre(StaleOfDesired)
        ELSE cur.dels = <<>> /\ deleted = 0

NamesAtStart == { r.name : r \in cur.reg0 }

\* C15: the registration loop runs only in a pass that is no dry run, with the
\* session open, over the records read when the pass began; it visits every
\* desired monitor, calls add_monitor for it when its name is not among those
\* records and otherwise leaves the registry alone; add_monitor is called
\* nowhere else.
C15_CreateSetFromSnapshot ==
    /\ [](pc = "reg_loop" =>
            /\ ~opts.dry_run
            /\ session = "open"
            /\ existing = get_monitors(cur.reg0))
    /\ [][(pc = "reg_loop" /\ idx <= Len(all_monitors) /\ idx' # idx) =>
            IF all_monitors[idx].name \in NamesAtStart
            THEN cur'.adds = cur.adds /\ registry' = registry
            ELSE /\ Len(cur'.adds) = Len(cur.adds) + 1
                 /\ cur'.adds[Len(cur'.adds)].name = all_monitors[idx].name]_vars
    /\ [][(pc = "reg_loop" /\ pc' # pc) => idx > Len(all_monitors)]_vars
    /\ [][(cur'.adds # cur.adds /\ cur'.adds # <<>>) => pc = "reg_loop"]_vars

\* of two desired monitors one was registered already and the other was created
C15_Witness ==
    /\ pc = "return"
    /\ Len(all_monitors) = 2
    /\ all_monitors[1].name \in NamesAtStart
    /\ Len(cur.adds) = 1
    /\ cur.adds[1].ok
    /\ cur.adds[1].name = all_monitors[2].name

\* the registry calls made so far in the pass
RegistryCalls == <<cur.reads, Len(cur.adds), Len(cur.dels)>>

\* C16: a pass logs in at most once; every get_monitors, add_monitor and
\* delete_monitor call is made while the session of the pass is open; the
\* session is open only inside the with block; and when the pass returns or
\* raises every session it logged in has been disconnected.
C16_OneSessionPerPass ==
    /\ [](cur.logins <= 1)
    /\ [](session = "open" =>
            (pc \in {"reg_list", "reg_loop", "cl_list", "cl_loop", "disconnect"}
             /\ cur.logins = 1 /\ cur.closes = 0))
    /\ [](pc \in {"return", "raise"} =>
            (session = "none" /\ cur.closes = cur.logins))
    /\ [][(RegistryCalls' # RegistryCalls /\ cur' # NoPass /\ InPass) =>
            session = "open"]_vars

\* a pass returns after a delete call failed and the session was closed
C16_Witness ==
    /\ pc = "return"
    /\ cur.logins = 1
    /\ cur.closes = 1
    /\ "delete" \in cur.failed
    /\ cur.reads = 2

\* C17: a pass that acquired its session and in which nothing failed has
\* called get_monitors exactly once when it returns.
C17_OneReadPerPass ==
    (pc = "return" /\ cur.logins = 1 /\ cur.failed = {}) => cur.reads = 1

\* the names of the monitors of the containers that run while docker ps fails
RunningNames == Names(AllContainerMonitors(world[1].running))

\* C18: in a pass whose docker ps call failed, no delete call is made for a
\* monitor of a container that is still running.
C18_FailedDiscoveryKeepsMonitors ==
    (InPass /\ world[1].kind = "CalledProcessError") =>
        \A i \in DOMAIN cur.dels : cur.dels[i].name \notin RunningNames

DeletedIds == { cur.dels[i].id : i \in { k \in DOMAIN cur.dels : cur.dels[k].ok } }

\* C20: a record of the registry is never changed: from one state to the next
\* it is the same in every field or its id is gone, and every record the
\* registry held when a pass began is still there unchanged unless a delete
\* call of the pass removed it.
C20_RecordsNeverEdited ==
    /\ [][\A r \in registry : r \in registry' \/ (\A q \in registry' : q.id # r.id)]_vars
    /\ [](InPass => \A r \in cur.reg0 : r \in registry \/ r.id \in DeletedIds)

\* a pass that registered has met a record with the name of a desired monitor
\* and another target, and left it as it was
C20_Witness ==
    /\ pc = "return"
    /\ ~opts.dry_run
    /\ cur.reads > 0
    /\ RecWeb \in cur.reg0
    /\ RecWeb \in registry
    /\ \E m \in Range(all_monitors) : m.name = RecWeb.name /\ m.path # RecWeb.path

\* C21: whenever a pass that is no dry run returns, whatever failed in it, the
\* pair it returns holds the number of add_monitor calls and the number of
\* delete_monitor calls that succeeded, which are the numbers of records the
\* registry gained and lost; a pass left by an exception has made no call.
C21_CountsAreSuccesses ==
    /\ (pc = "return" /\ ~opts.dry_run) =>
          /\ registered = OkCount(cur.adds)
          /\ deleted = OkCount(cur.dels)
          /\ registered = Cardinality(registry \ cur.reg0)
          /\ deleted = Cardinality(cur.reg0 \ registry)
    /\ pc = "raise" => (cur.adds = <<>> /\ cur.dels = <<>>)

\* a pass returns its created count after get_monitors failed in the cleanup
C21_Witness ==
    /\ pc = "return"
    /\ ~opts.dry_run
    /\ "list" \in cur.failed
    /\ registered > 0
    /\ deleted = 0

\* the monitors of the pass built from host processes
HostMonitors ==
    SelectSeq(all_monitors,
              LAMBDA m : Len(m.name) > Len(HostPrefix)
                         /\ SubSeq(m.name, 1, Len(HostPrefix)) = HostPrefix)

Sockets == world[2].conns

PublishedPorts ==
    UNION { { c.ports[j].host_port : j \in DOMAIN c.ports } :
            c \in Range(world[1].containers) }

\* the monitor name starts with "[Host] <owner>:"
NamesOwner(name, owner) ==
    /\ Len(name) > Len(HostPrefix) + Len(owner)
    /\ SubSeq(name, 1, Len(HostPrefix) + Len(owner) + 1) = HostPrefix \o owner \o <<":">>

\* the first listening socket of the list on a port
FirstListening(port) ==
    Sockets[CHOOSE i \in DOMAIN Sockets :
               /\ Sockets[i].status = "LISTEN" /\ Sockets[i].port = port
               /\ \A k \in 1..(i - 1) :
                     ~(Sockets[k].status = "LISTEN" /\ Sockets[k].port = port)]

\* C22: every host monitor of a pass is for the port of a listening socket,
\* a port that is neither in the exclude set, nor published by a container
\* found in the pass, nor below 1024; no two host monitors have the same port;
\* and the owner named is the process of the first listening socket on that
\* port.
C22_HostFilter ==
    pc = "return" =>
        /\ \A i \in DOMAIN HostMonitors :
              LET port == HostMonitors[i].port IN
              /\ \E k \in DOMAIN Sockets :
                    Sockets[k].status = "LISTEN" /\ Sockets[k].port = port
              /\ port \notin {22, 135, 139, 445, 3389, 5040, 7680}
              /\ port \notin PublishedPorts
              /\ port >= 1024
              /\ NamesOwner(HostMonitors[i].name, FirstListening(port).pname)
        /\ \A i, j \in DOMAIN HostMonitors :
              HostMonitors[i].port = HostMonitors[j].port => i = j

\* of two listening sockets on one port with different owners, after a socket
\* on that port that does not listen, the first listening one was kept
C22_Witness ==
    /\ pc = "return"
    /\ Len(Sockets) = 3
    /\ Sockets[1].status = "ESTABLISHED"
    /\ Sockets[2].pname = Str_redis /\ Sockets[2].procOk
    /\ Sockets[3].pname = Str_api /\ Sockets[3].status = "LISTEN" /\ Sockets[3].port = 6379
    /\ Len(HostMonitors) = 1
    /\ NamesOwner(HostMonitors[1].name, Str_redis)

Waiting == pc \in {"sleep_check", "sleeping"}

\* C23: the flag is tested before every one-second wait and a wait is begun
\* only when it is not set, so once it is set the wait under way is the last
\* and the loop head, which stops the loop, comes next; while it is not set
\* the waits of one cycle are counted from 0 to the interval, one at a time,
\* and the loop head is reached after exactly interval waits.
C23_SleepGranularity ==
    /\ [][(pc # "sleeping" /\ pc' = "sleeping") => (pc = "sleep_check" /\ ~shutdown)]_vars
    /\ [][(pc = "sleeping" /\ pc' # pc) => (pc' = "sleep_check" /\ slept' = slept + 1)]_vars
    /\ [][(pc = "sleep_check" /\ shutdown /\ pc' # pc) => pc' = "while"]_vars
    /\ [][(pc = "while" /\ shutdown /\ pc' # pc) => pc' = "stopped"]_vars
    /\ [][(~Waiting /\ Waiting') => slept' = 0]_vars
    /\ [][(pc = "sleep_check" /\ ~shutdown /\ pc' # pc) =>
            IF slept < opts.interval THEN pc' = "sleeping"
            ELSE (pc' = "while" /\ slept = opts.interval)]_vars
    /\ [][(pc = "while" /\ ~shutdown /\ pc' # pc) =>
            (pc' = "scan" /\ (cycle > 0 => slept = opts.interval))]_vars

\* the loop stopped on a request made during the first of several waits
C23_Witness ==
    /\ pc = "stopped"
    /\ shutdown
    /\ slept = 1
    /\ opts.interval > 1

====
